---- MODULE Spec2Model ----
(***************************************************************************)
(* Mount-time animation sequencer of the landing screen (src/app/index.tsx) *)
(*                                                                         *)
(* The screen owns two shared values, opacity and scale.  Its mount effect *)
(* assigns a timing animation to opacity and a repeated two-leg sequence   *)
(* of timing animations to scale; an animated style reads both values.     *)
(*                                                                         *)
(* Numbers are fixed point: a value v is held as v * 100000, an easing     *)
(* progress p in [0,1] as p * 1000, time in milliseconds on the frame      *)
(* clock, measured from the first render of the screen.                    *)
(***************************************************************************)
EXTENDS Integers, Sequences, FiniteSets, TLC

\* ---------------------------------------------------------------- bounds
\* The frame clock stops advancing at MaxTime (two full pulse cycles and more).
MaxTime == 9500
\* The mount effect runs at most this long after the first render.
MaxStartDelay == 500
\* Intervals between two animation frames.  250 divides the leg durations,
\* 750 does not, so legs can end exactly on time or late.
FrameDeltas == {250, 500, 750}

\* ------------------------------------------------------- program constants
\* 1.0 and 1.05 in fixed point
One == 100000
Peak == 105000
\* useSharedValue(1), useSharedValue(0)
ScaleInitial == One
OpacityInitialVisible == One
OpacityInitial == 0
\* withTiming(1, { duration: 1000 })
FadeDurationSlow == 2 * 1000
FadeDuration == 1000
\* withTiming(.., { duration: 2000, .. }) of both pulse legs
LegDurationShort == 2000 \div 2
LegDuration == 2000
\* withRepeat(.., -1, false): a count that is not positive repeats forever
NumberOfRepsOnce == 0 + 1
NumberOfReps == 0 - 1
Reverse == FALSE
\* progress 1.0 of an easing curve
EaseOne == 1000
\* "no start time": the frame clock of the model starts at 0, which is thus
\* a legitimate timestamp
NoTime == 0 - 1
NoAnim == [type |-> "none"]

\* ---------------------------------------------------------------- easing
\* Easing.quad
Quad(P) == (P * P) \div EaseOne

\* Easing.ease = bezier(0.42, 0, 1, 1): x(s) and y(s) of the cubic, s = S/100,
\* both in units of 1e-6
BezierX(S) == (3 * (100 - S) * (100 - S) * S * 42) \div 100 + 3 * (100 - S) * S * S + S * S * S
BezierY(S) == 3 * (100 - S) * S * S + S * S * S

\* the curve parameter for an x: the largest S whose x(S) does not exceed it
BezierS(P) ==
    LET below == {s \in 0..100 : BezierX(s) <= P * 1000}
    IN  IF below = {} THEN 0 ELSE CHOOSE s \in below : \A u \in below : u <= s

Ease(P) ==
    IF P = 0 THEN 0
    ELSE IF P = EaseOne THEN EaseOne
    ELSE BezierY(BezierS(P)) \div 1000

EasingFn(name, P) == IF name = "quad" THEN Quad(P) ELSE Ease(P)

\* Easing.inOut(f)
InOut(name, P) ==
    IF P < 500
    THEN EasingFn(name, 2 * P) \div 2
    ELSE EaseOne - EasingFn(name, 2 * (EaseOne - P)) \div 2

\* ------------------------------------------------------------- animations
\* startValue + (toValue - startValue) * progress
InterpolateFlipped(startValue, toValue, e) == startValue - ((toValue - startValue) * e) \div EaseOne
Interpolate(startValue, toValue, e) == startValue + ((toValue - startValue) * e) \div EaseOne

\* withTiming(toValue, { duration, easing }); the default easing is
\* Easing.inOut(Easing.quad)
withTiming(toValue, duration, easing) ==
    [type |-> "timing", toValue |-> toValue, duration |-> duration,
     easing |-> easing, startTime |-> NoTime, startValue |-> 0,
     current |-> toValue]

\* withSequence(a, b)
withSequence(a, b) ==
    [type |-> "sequence", animations |-> <<a, b>>, animationIndex |-> 0,
     current |-> a.current]

\* withRepeat(animation, numberOfReps, reverse)
withRepeat(animation, numberOfReps, reverse) ==
    [type |-> "repeat", animation |-> animation, numberOfReps |-> numberOfReps,
     reverse |-> reverse, reps |-> 0, startValue |-> 0,
     current |-> animation.current]

IsHigherOrder(a) == a.type \in {"sequence", "repeat"}

\* timing animation, onStart
TimingOnStart(a, value, now, prev) ==
    IF /\ prev.type = "timing"
       /\ prev.toValue = a.toValue
       /\ prev.startTime # NoTime
    THEN [a EXCEPT !.startTime = prev.startTime,
                   !.startValue = prev.startValue,
                   !.current = value]
    ELSE [a EXCEPT !.startTime = now, !.startValue = value, !.current = value]

\* timing animation, onFrame: the animation after the frame and whether it
\* has finished
TimingOnFrameNoEnd(a, now) ==
    LET runtime == now - a.startTime
        progress == InOut(a.easing, (runtime * EaseOne) \div a.duration)
    IN  [anim |-> [a EXCEPT !.current = Interpolate(a.startValue, a.toValue, progress)],
         finished |-> FALSE]

TimingOnFrame(a, now) ==
    LET runtime == now - a.startTime
        progress == InOut(a.easing, (runtime * EaseOne) \div a.duration)
    IN  IF runtime >= a.duration
        THEN [anim |-> [a EXCEPT !.startTime = NoTime, !.current = a.toValue],
              finished |-> TRUE]
        ELSE [anim |-> [a EXCEPT !.current = Interpolate(a.startValue, a.toValue, progress)],
              finished |-> FALSE]

RECURSIVE OnStart(_, _, _, _)
RECURSIVE OnFrame(_, _)

\* sequence animation, onStart: the first leg starts from the given value;
\* without a previous animation the last leg stands in for it
SequenceOnStart(a, value, now, prev) ==
    LET previous == IF prev = NoAnim THEN a.animations[Len(a.animations)] ELSE prev
    IN  [a EXCEPT !.animationIndex = 0,
                  !.animations[1] = OnStart(a.animations[1], value, now, previous)]

\* sequence animation, onFrame: steps the current leg; a leg that finishes
\* hands its value and the frame's timestamp to the next leg
SequenceOnFrame(a, now) ==
    LET i == a.animationIndex + 1
        r == OnFrame(a.animations[i], now)
        stepped == [a EXCEPT !.animations[i] = r.anim, !.current = r.anim.current]
    IN  IF ~r.finished
        THEN [anim |-> stepped, finished |-> FALSE]
        ELSE IF i < Len(a.animations)
        THEN [anim |-> [stepped EXCEPT
                          !.animationIndex = i,
                          !.animations[i + 1] =
                              OnStart(a.animations[i + 1], r.anim.current, now, r.anim)],
              finished |-> FALSE]
        ELSE [anim |-> [stepped EXCEPT !.animationIndex = i], finished |-> TRUE]

\* repeat animation, onStart
RepeatOnStart(a, value, now, prev) ==
    [a EXCEPT !.startValue = value, !.reps = 0,
              !.animation = OnStart(a.animation, value, now, prev)]

\* with reverse, a finished timing animation swaps its end points
Reversed(inner, startValue) ==
    IF inner.type = "timing"
    THEN [inner EXCEPT !.toValue = inner.startValue, !.startValue = startValue]
    ELSE inner

\* repeat animation, onFrame: a finished inner animation is counted and,
\* unless the count is used up, started again at the frame's timestamp
RepeatOnFrame(a, now) ==
    LET r == OnFrame(a.animation, now)
        reps == a.reps + 1
        startValue == IF a.reverse THEN r.anim.current ELSE a.startValue
        again == IF a.reverse THEN Reversed(r.anim, startValue) ELSE r.anim
    IN  IF ~r.finished
        THEN [anim |-> [a EXCEPT !.animation = r.anim, !.current = r.anim.current],
              finished |-> FALSE]
        ELSE IF a.numberOfReps > 0 /\ reps >= a.numberOfReps
        THEN [anim |-> [a EXCEPT !.animation = r.anim, !.current = r.anim.current,
                                 !.reps = reps],
              finished |-> TRUE]
        ELSE [anim |-> [a EXCEPT !.animation = OnStart(again, startValue, now, NoAnim),
                                 !.current = r.anim.current,
                                 !.reps = reps],
              finished |-> FALSE]

OnStart(a, value, now, prev) ==
    CASE a.type = "timing" -> TimingOnStart(a, value, now, prev)
      [] a.type = "sequence" -> SequenceOnStart(a, value, now, prev)
      [] a.type = "repeat" -> RepeatOnStart(a, value, now, prev)

OnFrame(a, now) ==
    CASE a.type = "timing" -> TimingOnFrame(a, now)
      [] a.type = "sequence" -> SequenceOnFrame(a, now)
      [] a.type = "repeat" -> RepeatOnFrame(a, now)

\* ----------------------------------------------------------- shared values
\* useSharedValue(initial): the value, the animation assigned to it and
\* whether that animation still asks for frames
useSharedValue(initial) == [value |-> initial, animation |-> NoAnim, running |-> FALSE]

\* one frame of the animation assigned to a shared value
Step(mutable, now) ==
    IF ~mutable.running
    THEN mutable
    ELSE LET r == OnFrame(mutable.animation, now)
         IN  [value |-> r.anim.current, animation |-> r.anim, running |-> ~r.finished]

\* mutable.value = animation: an animation that would end where the value
\* already is does nothing, any other is started and stepped once at the
\* current timestamp
SetAnimation(mutable, a, now) ==
    IF mutable.value = a.current /\ ~IsHigherOrder(a)
    THEN mutable
    ELSE Step([value |-> mutable.value,
               animation |-> OnStart(a, mutable.value, now, mutable.animation),
               running |-> TRUE], now)

\* cancelAnimation(mutable), run by the shared value's cleanup on unmount
CancelAnimation(mutable) == [mutable EXCEPT !.running = FALSE]

\* ------------------------------------------------------------ the screen
\* opacity.value = withTiming(1, { duration: 1000 })
FadeInLoop == withRepeat(withTiming(One, FadeDuration, "quad"), NumberOfReps, Reverse)
FadeIn == withTiming(One, FadeDuration, "quad")

\* the two legs of the pulse
RisingLeg == withTiming(Peak, LegDuration, "ease")
FallingLegDefaultEasing == withTiming(One, LegDuration, "quad")
FallingLeg == withTiming(One, LegDuration, "ease")

\* scale.value = withRepeat(withSequence(rising, falling), -1, false)
Pulse == withRepeat(withSequence(RisingLeg, FallingLeg), NumberOfReps, Reverse)

\* useAnimatedStyle(() => ({ transform: [{ scale }], opacity }))
animatedLogoStyleSwapped(sc, op) == [scale |-> op, opacity |-> sc]
animatedLogoStyle(sc, op) == [scale |-> sc, opacity |-> op]

\* the dependency list [] of the mount effect never changes between renders
EffectDepsChangedAlways == TRUE
EffectDepsChanged == FALSE

VARIABLES
    mounted,     \* the screen instance is mounted
    now,         \* timestamp of the latest frame
    startedAt,   \* timestamp at which the mount effect ran, NoTime before
    opacity,     \* shared value
    scale,       \* shared value
    style,       \* the StyleSnapshot last handed to the rendering surface
    cycleStart,  \* timestamp at which the running pulse cycle began
    last         \* the latest operation

vars == <<mounted, now, startedAt, opacity, scale, style, cycleStart, last>>

\* the state after the first render: both shared values created, the
\* animated style computed once, the mount effect still pending
Init ==
    /\ mounted = TRUE
    /\ now = 0
    /\ startedAt = NoTime
    /\ opacity = useSharedValue(OpacityInitial)
    /\ scale = useSharedValue(ScaleInitial)
    /\ style = animatedLogoStyle(ScaleInitial, OpacityInitial)
    /\ cycleStart = NoTime
    /\ last = "mount"

\* the body of the effect: start()
RunEffect ==
    /\ opacity' = SetAnimation(opacity, FadeIn, now)
    /\ scale' = SetAnimation(scale, Pulse, now)
    /\ startedAt' = now
    /\ cycleStart' = now

\* useEffect(.., []) after the first commit
Start ==
    /\ mounted
    /\ startedAt = NoTime
    /\ RunEffect
    /\ last' = "start"
    /\ UNCHANGED <<mounted, now, style>>

\* a frame of the host: the clock advances and every running animation is
\* stepped at the new timestamp
Tick ==
    \E dt \in FrameDeltas :
        /\ mounted
        /\ now + dt <= (IF startedAt = NoTime THEN MaxStartDelay ELSE MaxTime)
        /\ now' = now + dt
        /\ opacity' = Step(opacity, now')
        /\ scale' = Step(scale, now')
        /\ cycleStart' = IF scale.running /\ scale'.animation.reps # scale.animation.reps
                         THEN now' ELSE cycleStart
        /\ last' = "tick"
        /\ UNCHANGED <<mounted, startedAt, style>>

\* a re-render of the mounted screen: the hooks return the shared values
\* they already hold, and the effect runs again only if its dependencies
\* changed
Render ==
    /\ mounted
    /\ startedAt # NoTime
    /\ IF EffectDepsChanged
       THEN RunEffect
       ELSE UNCHANGED <<opacity, scale, startedAt, cycleStart>>
    /\ last' = "render"
    /\ UNCHANGED <<mounted, now, style>>

\* project(): the rendering surface asks for the style of the frame
Project ==
    /\ mounted
    /\ style' = animatedLogoStyle(scale.value, opacity.value)
    /\ last' = "project"
    /\ UNCHANGED <<mounted, now, startedAt, opacity, scale, cycleStart>>

\* the screen is torn down: the shared values cancel their animations
Unmount ==
    /\ mounted
    /\ mounted' = FALSE
    /\ opacity' = CancelAnimation(opacity)
    /\ scale' = CancelAnimation(scale)
    /\ last' = "unmount"
    /\ UNCHANGED <<now, startedAt, style, cycleStart>>

Next == Start \/ Tick \/ Render \/ Project \/ Unmount

Spec == Init /\ [][Next]_vars

\* ------------------------------------------------- reading the pulse state
Started == startedAt # NoTime

\* the sequence inside the repeat assigned to scale
PulseSequence == scale.animation.animation

\* 0 while the rising leg runs, 1 while the falling leg runs
LegIndex == PulseSequence.animationIndex

\* the timing animation of the running leg
CurrentLeg == PulseSequence.animations[LegIndex + 1]

\* completed pulse cycles
Reps == scale.animation.reps

\* time since the mount effect ran
Elapsed == now - startedAt

\* every leg so far began exactly 2000ms after the one before it
Aligned == CurrentLeg.startTime = startedAt + 2000 * (2 * Reps + LegIndex)

\* the pulse on an ideal timeline: the value r milliseconds into a cycle
\* whose legs each last exactly 2000ms
PulseAt(r) ==
    IF r < 2000
    THEN Interpolate(One, Peak, InOut("ease", (r * EaseOne) \div 2000))
    ELSE Interpolate(Peak, One, InOut("ease", ((r - 2000) * EaseOne) \div 2000))

\* ------------------------------------------------------------------ C1
C1_Alive ==
    (Started /\ mounted) =>
        /\ scale.running
        /\ scale.animation.type = "repeat"
        /\ LegIndex \in {0, 1}
        /\ LegIndex = 0 => (CurrentLeg.startValue = One /\ CurrentLeg.toValue = Peak)
        /\ LegIndex = 1 => (CurrentLeg.startValue = Peak /\ CurrentLeg.toValue = One)
        /\ last = "start" => LegIndex = 0

C1_Step ==
    (Started /\ mounted' /\ scale'.running /\ LegIndex' # LegIndex) =>
        \/ LegIndex = 0 /\ LegIndex' = 1 /\ scale'.value = Peak /\ Reps' = Reps
        \/ LegIndex = 1 /\ LegIndex' = 0 /\ scale'.value = One /\ Reps' = Reps + 1

\* C1: the pulse started by the mount effect is a two-state cycle that never
\* ends while the screen is mounted: it begins with the rising leg
\* (1 -> 1.05), a rising leg is only ever followed by a falling leg
\* (1.05 -> 1) and a falling leg by a new rising leg that starts from 1
\* again, and the animation never finishes.
C1_PulseIsEndlessTwoStateCycle == [](C1_Alive) /\ [][C1_Step]_vars

\* the second cycle has reached its falling leg
C1_Witness == Started /\ mounted /\ Reps >= 1 /\ LegIndex = 1 /\ last = "tick"

\* ------------------------------------------------------------------ C2
\* C2: from the start of the fade-in up to 1000ms after it, opacity never
\* decreases from one frame to the next, and at 1000ms it is 1.
C2_FadeInMonotoneToOne ==
    /\ []((Started /\ Elapsed = 1000) => opacity.value = One)
    /\ [][(Started /\ now' - startedAt <= 1000) => opacity'.value >= opacity.value]_vars

\* a frame landed 1000ms after the start, after frames that sampled the ramp
C2_Witness == Started /\ Elapsed = 1000 /\ last = "tick" /\ opacity.value = One

C4_InitialValues ==
    (mounted /\ (~Started \/ now = startedAt)) =>
        (opacity.value = 0 /\ scale.value = One)

\* the effect has run and no frame has followed
C4_Witness == last = "start" /\ now = startedAt /\ scale.running /\ opacity.running

\* ------------------------------------------------------------------ C5
\* C5: opacity is always within [0, 1].
C5_OpacityInUnitRange == opacity.value >= 0 /\ opacity.value <= One

\* a sampled value strictly inside the range
C5_Witness == Started /\ opacity.value > 0 /\ opacity.value < One /\ last = "tick"

\* ------------------------------------------------------------------ C6
\* C6: once opacity is 1 no later step changes it, however many frames,
\* pulse legs or re-renders follow.
C6_FadeInRunsOnce == [][opacity.value = One => opacity'.value = One]_vars

\* opacity is 1 and the pulse has since completed a cycle and re-rendered
C6_Witness == opacity.value = One /\ ~opacity.running /\ Reps >= 1 /\ last = "render"

C8_ProjectIsPureRead ==
    [][last' = "project" =>
          /\ opacity' = opacity
          /\ scale' = scale
          /\ now' = now
          /\ style' = [scale |-> scale.value, opacity |-> opacity.value]]_vars

\* a snapshot taken while both animations are in flight
C8_Witness ==
    /\ last = "project"
    /\ style.opacity > 0 /\ style.opacity < One
    /\ style.scale > One /\ style.scale < Peak

\* ------------------------------------------------------------------ C9
\* C9: the mount effect runs once per mount: once it has run its timestamp
\* never changes, and a re-render leaves both shared values, their
\* animations and the phase of the pulse as they were.
C9_StartOncePerMount ==
    [][/\ Started => startedAt' = startedAt
       /\ last' = "render" => UNCHANGED <<opacity, scale, cycleStart>>]_vars

\* a re-render while the fade-in and a pulse leg are in flight
C9_Witness ==
    /\ last = "render" /\ mounted
    /\ opacity.running /\ opacity.value > 0
    /\ scale.value > One /\ scale.value < Peak

\* ------------------------------------------------------------------ C10
\* C10: scale is always within [1, 1.05]; it never decreases over a step
\* taken during a rising leg and never increases over a step taken during a
\* falling leg.
C10_ScaleInBandAndMonotonePerLeg ==
    /\ [](scale.value >= One /\ scale.value <= Peak)
    /\ [][(Started /\ mounted) =>
             /\ LegIndex = 0 => scale'.value >= scale.value
             /\ LegIndex = 1 => scale'.value <= scale.value]_vars

\* inside the band on the falling leg of a later cycle
C10_Witness ==
    /\ Started /\ Reps >= 1 /\ LegIndex = 1
    /\ scale.value > One /\ scale.value < Peak /\ last = "tick"
====
